---- MODULE Spec2Model ----
(***************************************************************************)
(* Model of the judging backend (src/app.py): the admin login and bearer   *)
(* token check, the release gate kept in the app_state collection, and the *)
(* submissions collection with insert, list and bulk delete.               *)
(*                                                                         *)
(* Time is counted in whole hours.  A JSON value is a record tagged by its *)
(* type in field t; a JSON object carries a function from keys to values.  *)
(* A header or token string is a sequence of atoms, the space being one.   *)
(***************************************************************************)
EXTENDS Integers, Sequences, FiniteSets, TLC

\* ------------------------------------------------------------- bounds
MaxTime == 8
MaxTokens == 1
MaxOid == 2
MaxDocs == 2

\* ------------------------------------------------- program constants
TOKEN_HOURS == 8

SECRET_KEY == "secret-key"
ADMIN_PASSWORD == [t |-> "str", v |-> "hunter2"]
RELEASE_CONFIG == "release_config"
required_fields ==
    <<"judgeName", "teamName", "hackathonTrack", "scores", "submissionTimestamp">>

VARIABLES
    storageUp,       \* the MongoDB server answers calls right now
    collectionsOk,   \* submissions_collection / app_state_collection are not None
    aggregatorUrl,   \* AGGREGATOR_URL is set
    submissions,     \* the submissions collection, in natural order
    app_state,       \* the app_state collection, a set of documents
    nextOid,         \* the next ObjectId the driver generates
    now,             \* the clock, in hours
    issued,          \* tokens handed out by admin_login and still held by clients
    resp,            \* the last response sent
    assigned,        \* history: every _id a successful insert_one has returned
    rd               \* get_results in flight: "idle", or "checked" after the gate check

vars == <<storageUp, collectionsOk, aggregatorUrl, submissions, app_state,
          nextOid, now, issued, resp, assigned, rd>>

\* ------------------------------------------------------- JSON values
JNull == [t |-> "null"]
JStr(s) == [t |-> "str", v |-> s]
JNum(n) == [t |-> "num", v |-> n]
JBool(b) == [t |-> "bool", v |-> b]
JArr(s) == [t |-> "arr", v |-> s]
JObj(f) == [t |-> "obj", v |-> f]
\* Python's None, as returned by dict.get for a missing key
None == [t |-> "none"]
Oid(n) == [t |-> "oid", v |-> n]

\* Python truthiness of a value: None, null, "", 0, False, [] and {} are falsy
Truthy(x) ==
    CASE x.t \in {"none", "null"} -> FALSE
      [] x.t = "str" -> x.v # ""
      [] x.t = "num" -> x.v # 0
      [] x.t = "bool" -> x.v
      [] x.t = "arr" -> x.v # <<>>
      [] x.t = "obj" -> DOMAIN x.v # {}
      [] OTHER -> TRUE

\* dict.get(key) on a JSON object
Get(obj, key) == IF key \in DOMAIN obj.v THEN obj.v[key] ELSE None

\* ----------------------------------------------------------- strings
SP == [k |-> "sp"]
Word(w) == [k |-> "w", w |-> w]

\* jwt.encode: the claims, signed with key
JwtEncode(claims, key) == [k |-> "jwt", key |-> key, exp |-> claims.exp, admin |-> claims.admin]

\* str.split(" "): the parts between the spaces, empty parts kept
RECURSIVE SplitFrom(_, _, _)
SplitFrom(s, i, cur) ==
    IF i > Len(s) THEN <<cur>>
    ELSE IF s[i] = SP THEN <<cur>> \o SplitFrom(s, i + 1, <<>>)
    ELSE SplitFrom(s, i + 1, Append(cur, s[i]))

Split(s) == SplitFrom(s, 1, <<>>)

SubstringTable == {<<f, "judgeName teamName hackathonTrack scores submissionTimestamp">> :
                       f \in {"judgeName", "teamName", "hackathonTrack", "scores",
                              "submissionTimestamp"}}

OidHexTable == <<"650000000000000000000001", "650000000000000000000002",
                 "650000000000000000000003", "650000000000000000000004",
                 "650000000000000000000005", "650000000000000000000006">>

\* --------------------------------------------------- token_required
\* Faulty variant: the signature is not verified
JwtDecode_NoVerify(token, key, t) ==
    IF Len(token) # 1 \/ token[1].k # "jwt" THEN "InvalidTokenError"
    ELSE IF token[1].exp <= t THEN "ExpiredSignatureError"
    ELSE "ok"

\* Faulty variant: a token is still taken at the hour of its expiry
JwtDecode_Late(token, key, t) ==
    IF Len(token) # 1 \/ token[1].k # "jwt" THEN "InvalidTokenError"
    ELSE IF token[1].key # key THEN "InvalidTokenError"
    ELSE IF token[1].exp < t THEN "ExpiredSignatureError"
    ELSE "ok"

\* jwt.decode(token, SECRET_KEY, algorithms=["HS256"]) at time t:
\* the signature is verified first, then the exp claim
JwtDecode(token, key, t) ==
    IF Len(token) # 1 \/ token[1].k # "jwt" THEN "InvalidTokenError"
    ELSE IF token[1].key # key THEN "InvalidTokenError"
    ELSE IF token[1].exp <= t THEN "ExpiredSignatureError"
    ELSE "ok"

\* request.headers: the Authorization header, when the request carries one
NoHeader == [present |-> FALSE, v |-> <<>>]
Header(s) == [present |-> TRUE, v |-> s]

\* The wrapper's verdict on the Authorization header: "ok", or the 401 message
TokenCheck(header, t) ==
    IF ~header.present THEN "Token is missing!"
    ELSE LET parts == Split(header.v) IN
         IF Len(parts) < 2 THEN "Malformed 'Authorization' header."
         ELSE LET token == parts[2] IN
         IF token = <<>> THEN "Token is missing!"
         ELSE LET decoded == JwtDecode(token, SECRET_KEY, t) IN
              CASE decoded = "ExpiredSignatureError" -> "Token has expired!"
                [] decoded = "InvalidTokenError" -> "Token is invalid!"
                [] OTHER -> "ok"

\* Python's "field in container" for a str field: a dict has it as a key, a list as
\* an element, a str as a substring; anything else raises TypeError
Substring(a, b) == a = b \/ <<a, b>> \in SubstringTable

In(field, c) ==
    CASE c.t = "obj" -> IF field \in DOMAIN c.v THEN "True" ELSE "False"
      [] c.t = "arr" -> IF \E i \in 1..Len(c.v) : c.v[i] = JStr(field) THEN "True" ELSE "False"
      [] c.t = "str" -> IF Substring(field, c.v) THEN "True" ELSE "False"
      [] OTHER -> "TypeError"

RECURSIVE AllIn(_, _, _)
\* Faulty variant: the last required field is not looked for
AllIn_FirstFour(fields, i, c) ==
    IF i > Len(fields) - 1 THEN "True"
    ELSE IF In(fields[i], c) = "True" THEN AllIn(fields, i + 1, c)
    ELSE In(fields[i], c)

\* all(field in new_submission for field in required_fields), left to right
AllIn(fields, i, c) ==
    IF i > Len(fields) THEN "True"
    ELSE IF In(fields[i], c) = "True" THEN AllIn(fields, i + 1, c)
    ELSE In(fields[i], c)

\* ------------------------------------------------------------ storage
\* str(ObjectId): the hexadecimal form
OidHex(n) == OidHexTable[n]

\* str(result['_id'])
Str(id) ==
    CASE id.t = "oid" -> JStr(OidHex(id.v))
      [] id.t = "str" -> id

\* collection.find_one({"_id": id}): the document, or None
FindOne(coll, id) ==
    IF \E d \in coll : d._id = id THEN CHOOSE d \in coll : d._id = id ELSE None

\* Faulty variant: an existing record is left as it is
UpdateOne_SetOnInsert(coll, id, val) ==
    IF \E d \in coll : d._id = id THEN coll
    ELSE coll \cup {[_id |-> id, results_released |-> val]}

\* Faulty variant: every call inserts a record, upsert or not
UpdateOne_InsertOnly(coll, id, val) == coll \cup {[_id |-> id, results_released |-> val]}

\* Faulty variant: an existing record has its flag inverted, not set
UpdateOne_Flip(coll, id, val) ==
    IF \E d \in coll : d._id = id
    THEN {IF d._id = id THEN [d EXCEPT !.results_released = ~d.results_released] ELSE d :
            d \in coll}
    ELSE coll \cup {[_id |-> id, results_released |-> val]}

\* collection.update_one({"_id": id}, {"$set": {"results_released": val}}, upsert=True)
UpdateOne(coll, id, val) ==
    IF \E d \in coll : d._id = id
    THEN {IF d._id = id THEN [d EXCEPT !.results_released = val] ELSE d : d \in coll}
    ELSE coll \cup {[_id |-> id, results_released |-> val]}

\* Faulty variant: any release_config record opens the gate
Released_AnyRecord(coll) == FindOne(coll, RELEASE_CONFIG) # None

\* status_doc.get("results_released", False) on a document of app_state
Released(coll) ==
    LET status_doc == FindOne(coll, RELEASE_CONFIG) IN
    IF status_doc = None THEN FALSE ELSE status_doc.results_released

\* The document the driver sends: the payload's fields, and a generated _id when
\* the payload carries none
WithId(p, oid) ==
    IF "_id" \in DOMAIN p.v THEN p.v
    ELSE [key \in DOMAIN p.v \cup {"_id"} |-> IF key = "_id" THEN Oid(oid) ELSE p.v[key]]

\* Faulty variant: a record of the same judge and team is replaced
InsertOne_Upsert(coll, doc) ==
    IF \E i \in 1..Len(coll) : coll[i].judgeName = doc.judgeName /\ coll[i].teamName = doc.teamName
    THEN [i \in 1..Len(coll) |->
            IF coll[i].judgeName = doc.judgeName /\ coll[i].teamName = doc.teamName
            THEN doc ELSE coll[i]]
    ELSE Append(coll, doc)

\* collection.insert_one(doc), the server accepting it: the collection afterwards
InsertOne(coll, doc) == Append(coll, doc)

\* Faulty variant: delete_one in place of delete_many
DeleteMany_One(coll) ==
    IF coll = <<>> THEN [remaining |-> <<>>, deleted_count |-> 0]
    ELSE [remaining |-> Tail(coll), deleted_count |-> 1]

\* collection.delete_many({}): what is left, and the count it reports
DeleteMany(coll) == [remaining |-> <<>>, deleted_count |-> Len(coll)]

DuplicateKey(coll, doc) == \E i \in 1..Len(coll) : coll[i]._id = doc._id

\* list(find()) with every _id converted to a string
ResultsList(coll) == [i \in 1..Len(coll) |-> [coll[i] EXCEPT !._id = Str(coll[i]._id)]]

\* ---------------------------------------------------------- responses
Resp(op, status, out) == [op |-> op, status |-> status, out |-> out]
Msg(m) == [t |-> "msg", v |-> m]
Unauthorized(op, m) == Resp(op, 401, Msg(m))

Init ==
    /\ storageUp \in BOOLEAN
    /\ collectionsOk = storageUp
    /\ aggregatorUrl = FALSE
    /\ submissions = <<>>
    /\ app_state = {}
    /\ nextOid = 1
    /\ now = 0
    /\ issued = {}
    /\ resp = Resp("none", 0, Msg(""))
    /\ assigned = {}
    /\ rd = "idle"

\* ------------------------------------------------------------ inputs
NotJson == [t |-> "notjson"]

\* Login request bodies
LoginBodies ==
    {NotJson, JNull, JArr(<<JStr("hunter2")>>), JObj(<<>>)}
    \cup {JObj([password |-> pw]) :
            pw \in {JNull, JStr(""), JStr("hunter2"), JStr("Hunter2"), JStr("letmein"), JNum(0)}}

\* Tokens a client can present at this point: those issued to it, one signed
\* with another key, and one that is no JWT at all
ForgedToken == <<JwtEncode([admin |-> TRUE, exp |-> MaxTime + TOKEN_HOURS + 1], "other-key")>>
Tokens == issued \cup {ForgedToken, <<Word("garbage")>>}

Headers ==
    {NoHeader, Header(<<>>), Header(<<Word("Bearer")>>), Header(<<Word("Bearer"), SP>>)}
    \cup {Header(tok) : tok \in Tokens}
    \cup {Header(<<Word("Bearer"), SP>> \o tok) : tok \in Tokens}
    \cup {Header(<<Word("Basic"), SP>> \o tok) : tok \in issued}
    \cup {Header(<<Word("Bearer"), SP>> \o tok \o <<SP, Word("x")>>) : tok \in issued}

PlainLoginBodies == {JObj([password |-> pw]) : pw \in {JStr("hunter2"), JStr("letmein")}}
PlainHeaders == {NoHeader} \cup {Header(<<Word("Bearer"), SP>> \o tok) : tok \in issued}

GoodScores == JObj([design |-> JNum(8)])
BasePayload ==
    [judgeName |-> JStr("A"), teamName |-> JStr("B"), hackathonTrack |-> JStr("AI"),
     scores |-> GoodScores, submissionTimestamp |-> JStr("2024-01-01T00:00:00Z")]
Without(f, key) == [x \in DOMAIN f \ {key} |-> f[x]]
With(f, key, val) == [x \in DOMAIN f \cup {key} |-> IF x = key THEN val ELSE f[x]]
RequiredSet == {required_fields[i] : i \in 1..Len(required_fields)}

\* Submit request bodies
Payloads ==
    {NotJson, JNull, JNum(7), JStr("hello"),
     JStr("judgeName teamName hackathonTrack scores submissionTimestamp"),
     JArr(<<JStr("judgeName")>>),
     JArr([i \in 1..Len(required_fields) |-> JStr(required_fields[i])]),
     JObj(<<>>), JObj(BasePayload)}
    \cup {JObj(Without(BasePayload, key)) : key \in RequiredSet}
    \cup {JObj(With(BasePayload, "scores", sc)) :
            sc \in {JNull, JNum(8), JStr("8"), JArr(<<JNum(8)>>)}}
    \cup {JObj(With(Without(BasePayload, "teamName"), "scores", JNum(8)))}
    \cup {JObj(With(BasePayload, "_id", JStr("team-b"))),
          JObj(With(BasePayload, "receivedAt", JStr("1999-01-01T00:00:00Z"))),
          JObj(With(With(BasePayload, "judgeName", JStr("")), "teamName", JNum(5)))}

AggregatorOutcomes == {"ok", "http_error", "connection_error", "timeout"}

\* ---------------------------------------------------------- endpoints
\* Faulty variant: the comparison ignores case
CheckPassword_AnyCase(password) == password \in {ADMIN_PASSWORD, JStr("Hunter2")}

\* password == ADMIN_PASSWORD
CheckPassword(password) == password = ADMIN_PASSWORD

\* POST /api/admin-login
admin_login(body) ==
    /\ UNCHANGED <<storageUp, collectionsOk, aggregatorUrl, submissions, app_state,
                   nextOid, now, assigned, rd>>
    /\ IF body = NotJson
       THEN resp' = Resp("admin_login", 400, Msg("Request must be JSON")) /\ UNCHANGED issued
       ELSE IF body.t # "obj"
       THEN resp' = Resp("admin_login", 500, Msg("AttributeError")) /\ UNCHANGED issued
       ELSE LET password == Get(body, "password") IN
            IF ~Truthy(password)
            THEN resp' = Resp("admin_login", 400, Msg("Password is required."))
                 /\ UNCHANGED issued
            ELSE IF CheckPassword(password)
            THEN LET token == <<JwtEncode([admin |-> TRUE, exp |-> now + TOKEN_HOURS],
                                          SECRET_KEY)>> IN
                 /\ resp' = Resp("admin_login", 200, [t |-> "token", v |-> token])
                 /\ issued' = IF Cardinality(issued) < MaxTokens
                              THEN issued \cup {token} ELSE issued
            ELSE resp' = Resp("admin_login", 401, Msg("Invalid credentials."))
                 /\ UNCHANGED issued

\* POST /api/submit-judging
submit_judging(new_submission) ==
    /\ UNCHANGED <<storageUp, collectionsOk, aggregatorUrl, app_state, now, issued, rd>>
    /\ IF new_submission = NotJson
       THEN resp' = Resp("submit_judging", 400, Msg("Request must be JSON"))
            /\ UNCHANGED <<submissions, nextOid, assigned>>
       ELSE IF ~collectionsOk
       THEN resp' = Resp("submit_judging", 500, Msg("Database connection is not available."))
            /\ UNCHANGED <<submissions, nextOid, assigned>>
       ELSE IF AllIn(required_fields, 1, new_submission) = "TypeError"
       THEN resp' = Resp("submit_judging", 500, Msg("TypeError"))
            /\ UNCHANGED <<submissions, nextOid, assigned>>
       ELSE IF AllIn(required_fields, 1, new_submission) = "False"
       THEN resp' = Resp("submit_judging", 400, Msg("Missing required fields in submission"))
            /\ UNCHANGED <<submissions, nextOid, assigned>>
       ELSE IF new_submission.t # "obj"
       THEN resp' = Resp("submit_judging", 500, Msg("AttributeError"))
            /\ UNCHANGED <<submissions, nextOid, assigned>>
       ELSE IF Get(new_submission, "scores").t # "obj"
       THEN resp' = Resp("submit_judging", 400, Msg("Scores field must be an object"))
            /\ UNCHANGED <<submissions, nextOid, assigned>>
       ELSE LET doc == WithId(new_submission, nextOid) IN
            /\ nextOid' = IF "_id" \in DOMAIN new_submission.v THEN nextOid ELSE nextOid + 1
            /\ nextOid' <= MaxOid + 1
            /\ IF ~storageUp \/ DuplicateKey(submissions, doc)
               THEN /\ resp' = Resp("submit_judging", 500,
                                    Msg("An internal server error occurred."))
                    /\ UNCHANGED <<submissions, assigned>>
               ELSE /\ Len(submissions) < MaxDocs
                    /\ submissions' = InsertOne(submissions, doc)
                    /\ assigned' = assigned \cup {doc._id}
                    /\ resp' = Resp("submit_judging", 201, [t |-> "id", v |-> Str(doc._id)])

\* GET /api/get-results, up to the check of the release status
get_results_check ==
    /\ rd = "idle"
    /\ UNCHANGED <<storageUp, collectionsOk, aggregatorUrl, submissions, app_state,
                   nextOid, now, issued, assigned>>
    /\ IF ~collectionsOk
       THEN resp' = Resp("get_results", 500, Msg("Database connection is not available."))
            /\ UNCHANGED rd
       ELSE IF ~storageUp
       THEN resp' = Resp("get_results", 500, Msg("find_one raised")) /\ UNCHANGED rd
       ELSE IF ~Released(app_state)
       THEN resp' = Resp("get_results", 403,
                         Msg("Results have not been released by the admin yet."))
            /\ UNCHANGED rd
       ELSE rd' = "checked" /\ UNCHANGED resp

\* GET /api/get-results, from the read of the submissions on
get_results_read ==
    /\ rd = "checked"
    /\ rd' = "idle"
    /\ UNCHANGED <<storageUp, collectionsOk, aggregatorUrl, submissions, app_state,
                   nextOid, now, issued, assigned>>
    /\ IF ~storageUp
       THEN resp' = Resp("get_results", 500,
                         Msg("An internal server error occurred retrieving results."))
       ELSE resp' = Resp("get_results", 200, [t |-> "list", v |-> ResultsList(submissions)])

\* GET /api/results-status
get_results_status(header) ==
    /\ UNCHANGED <<storageUp, collectionsOk, aggregatorUrl, submissions, app_state,
                   nextOid, now, issued, assigned, rd>>
    /\ LET verdict == TokenCheck(header, now) IN
       IF verdict # "ok"
       THEN resp' = Unauthorized("get_results_status", verdict)
       ELSE IF ~collectionsOk
       THEN resp' = Resp("get_results_status", 500,
                         Msg("Database connection is not available."))
       ELSE IF ~storageUp
       THEN resp' = Resp("get_results_status", 500, Msg("find_one raised"))
       ELSE resp' = Resp("get_results_status", 200,
                         [t |-> "flag", v |-> Released(app_state)])

\* Faulty variant: a toggle to the state the gate is already in is refused
set_released_Strict(op, header, val) ==
    /\ UNCHANGED <<storageUp, collectionsOk, aggregatorUrl, submissions,
                   nextOid, now, issued, assigned, rd>>
    /\ LET verdict == TokenCheck(header, now) IN
       IF verdict # "ok"
       THEN resp' = Unauthorized(op, verdict) /\ UNCHANGED app_state
       ELSE IF ~collectionsOk \/ ~storageUp
       THEN resp' = Resp(op, 500, Msg("unavailable")) /\ UNCHANGED app_state
       ELSE IF app_state # {} /\ Released(app_state) = val
       THEN resp' = Resp(op, 409, Msg("already in that state")) /\ UNCHANGED app_state
       ELSE /\ app_state' = UpdateOne(app_state, RELEASE_CONFIG, val)
            /\ resp' = Resp(op, 200, Msg("success"))

\* The body shared by release_results (val TRUE) and retract_results (val FALSE)
set_released(op, header, val) ==
    /\ UNCHANGED <<storageUp, collectionsOk, aggregatorUrl, submissions,
                   nextOid, now, issued, assigned, rd>>
    /\ LET verdict == TokenCheck(header, now) IN
       IF verdict # "ok"
       THEN resp' = Unauthorized(op, verdict) /\ UNCHANGED app_state
       ELSE IF ~collectionsOk
       THEN resp' = Resp(op, 500, Msg("Database connection is not available."))
            /\ UNCHANGED app_state
       ELSE IF ~storageUp
       THEN resp' = Resp(op, 500, Msg("update_one raised")) /\ UNCHANGED app_state
       ELSE /\ app_state' = UpdateOne(app_state, RELEASE_CONFIG, val)
            /\ resp' = Resp(op, 200, Msg("success"))

\* POST /api/release-results
release_results(header) == set_released("release_results", header, TRUE)

\* POST /api/retract-results
retract_results(header) == set_released("retract_results", header, FALSE)

\* Faulty variant: a refresh the aggregator accepts also empties the local store
refresh_aggregator_Reset(header, outcome) ==
    /\ UNCHANGED <<storageUp, collectionsOk, aggregatorUrl, app_state,
                   nextOid, now, issued, assigned, rd>>
    /\ LET verdict == TokenCheck(header, now) IN
       IF verdict # "ok"
       THEN resp' = Unauthorized("refresh_aggregator", verdict) /\ UNCHANGED submissions
       ELSE IF ~aggregatorUrl \/ outcome # "ok"
       THEN resp' = Resp("refresh_aggregator", 500, Msg(outcome)) /\ UNCHANGED submissions
       ELSE resp' = Resp("refresh_aggregator", 200, Msg("success")) /\ submissions' = <<>>

\* POST /api/refresh-aggregator
refresh_aggregator(header, outcome) ==
    /\ UNCHANGED <<storageUp, collectionsOk, aggregatorUrl, submissions, app_state,
                   nextOid, now, issued, assigned, rd>>
    /\ LET verdict == TokenCheck(header, now) IN
       IF verdict # "ok"
       THEN resp' = Unauthorized("refresh_aggregator", verdict)
       ELSE IF ~aggregatorUrl
       THEN resp' = Resp("refresh_aggregator", 500,
                         Msg("AGGREGATOR_URL is not set in the environment."))
       ELSE IF outcome # "ok"
       THEN resp' = Resp("refresh_aggregator", 500, Msg(outcome))
       ELSE resp' = Resp("refresh_aggregator", 200, Msg("success"))

\* Faulty variant: clearing the store also drops the release record
clear_results_ResetGate(header) ==
    /\ UNCHANGED <<storageUp, collectionsOk, aggregatorUrl,
                   nextOid, now, issued, assigned, rd>>
    /\ LET verdict == TokenCheck(header, now) IN
       IF verdict # "ok"
       THEN resp' = Unauthorized("clear_results", verdict)
            /\ UNCHANGED <<submissions, app_state>>
       ELSE IF ~collectionsOk \/ ~storageUp
       THEN resp' = Resp("clear_results", 500, Msg("unavailable"))
            /\ UNCHANGED <<submissions, app_state>>
       ELSE /\ submissions' = <<>>
            /\ app_state' = {}
            /\ resp' = Resp("clear_results", 200, [t |-> "count", v |-> Len(submissions)])

\* POST /api/clear-results
clear_results(header) ==
    /\ UNCHANGED <<storageUp, collectionsOk, aggregatorUrl, app_state,
                   nextOid, now, issued, assigned, rd>>
    /\ LET verdict == TokenCheck(header, now) IN
       IF verdict # "ok"
       THEN resp' = Unauthorized("clear_results", verdict)
            /\ UNCHANGED submissions
       ELSE IF ~collectionsOk
       THEN resp' = Resp("clear_results", 500, Msg("Database connection is not available."))
            /\ UNCHANGED submissions
       ELSE IF ~storageUp
       THEN resp' = Resp("clear_results", 500, Msg("delete_many raised"))
            /\ UNCHANGED submissions
       ELSE LET delete_result == DeleteMany(submissions) IN
            /\ submissions' = delete_result.remaining
            /\ resp' = Resp("clear_results", 200,
                            [t |-> "count", v |-> delete_result.deleted_count])

\* ------------------------------------------------------- environment
Tick ==
    /\ now < MaxTime
    /\ now' = now + 1
    /\ UNCHANGED <<storageUp, collectionsOk, aggregatorUrl, submissions, app_state,
                   nextOid, issued, resp, assigned, rd>>

StorageFlip ==
    /\ storageUp' = ~storageUp
    /\ UNCHANGED <<collectionsOk, aggregatorUrl, submissions, app_state,
                   nextOid, now, issued, resp, assigned, rd>>

Login(bodies) == \E body \in bodies : admin_login(body)
Submit(payloads) == \E p \in payloads : submit_judging(p)
Status(headers) == \E h \in headers : get_results_status(h)
Release(headers) == \E h \in headers : release_results(h)
Retract(headers) == \E h \in headers : retract_results(h)
Refresh(headers) == \E h \in headers, o \in AggregatorOutcomes : refresh_aggregator(h, o)
Clear(headers) == \E h \in headers : clear_results(h)

\* The store and the gate: every payload, storage that comes and goes, and
\* admin calls made without a header or with a token that was issued
Next ==
    \/ StorageFlip
    \/ Login(PlainLoginBodies)
    \/ Submit(Payloads)
    \/ get_results_check
    \/ get_results_read
    \/ Status(PlainHeaders)
    \/ Release(PlainHeaders)
    \/ Retract(PlainHeaders)
    \/ Clear(PlainHeaders)

\* The token authority: every login body and every header, as the clock runs,
\* over a store that already holds a submission and a gate already released
InitAuth ==
    /\ storageUp = TRUE
    /\ collectionsOk = TRUE
    /\ aggregatorUrl = TRUE
    /\ submissions = <<WithId(JObj(BasePayload), 1)>>
    /\ app_state = {[_id |-> RELEASE_CONFIG, results_released |-> TRUE]}
    /\ nextOid = 2
    /\ now = 0
    /\ issued = {}
    /\ resp = Resp("none", 0, Msg(""))
    /\ assigned = {Oid(1)}
    /\ rd = "idle"

NextAuth ==
    \/ Tick
    \/ Login(LoginBodies)
    \/ Status(Headers)
    \/ Release(Headers)
    \/ Retract(Headers)
    \/ Refresh(Headers)
    \/ Clear(Headers)

\* The aggregator: AGGREGATOR_URL set in the environment or not, and every
\* outcome of the call to it, over a store and a gate that are in use
InitAgg ==
    /\ storageUp = TRUE
    /\ collectionsOk = TRUE
    /\ aggregatorUrl \in BOOLEAN
    /\ submissions = <<>>
    /\ app_state = {}
    /\ nextOid = 1
    /\ now = 0
    /\ issued = {}
    /\ resp = Resp("none", 0, Msg(""))
    /\ assigned = {}
    /\ rd = "idle"

NextAgg ==
    \/ Login(PlainLoginBodies)
    \/ Submit({JObj(BasePayload)})
    \/ Release(PlainHeaders)
    \/ Retract(PlainHeaders)
    \/ Refresh(PlainHeaders)

Spec == Init /\ [][Next]_vars
SpecAgg == InitAgg /\ [][NextAgg]_vars
SpecAuth == InitAuth /\ [][NextAuth]_vars
\* ------------------------------------------------------------- claims
\* The gate as the specification names it: Released when the release_config
\* record exists and carries results_released = TRUE, Retracted otherwise
GateState ==
    IF \E d \in app_state : d._id = RELEASE_CONFIG /\ d.results_released = TRUE
    THEN "Released" ELSE "Retracted"

StorageAvailable == collectionsOk /\ storageUp

\* A list that holds the stored submissions one for one: the same length, every
\* field but _id as stored, and _id given as a string
ExactlyStored(list, stored) ==
    /\ Len(list) = Len(stored)
    /\ \A i \in 1..Len(stored) :
         /\ DOMAIN list[i] = DOMAIN stored[i]
         /\ \A key \in DOMAIN stored[i] \ {"_id"} : list[i][key] = stored[i][key]
         /\ list[i]._id.t = "str"
         /\ stored[i]._id.t = "str" => list[i]._id = stored[i]._id

\* C1: with storage available, get_results answers 403 exactly when the gate is
\* Retracted (a store on which release was never called included); when the gate
\* is Released it goes on to read the store, and that read answers 200 with
\* exactly the submissions stored at that moment.
C1_GetResultsGate ==
    [][StorageAvailable =>
         /\ get_results_check =>
              /\ (resp'.op = "get_results" /\ resp'.status = 403 /\ rd' = "idle")
                    <=> GateState = "Retracted"
              /\ GateState = "Released" => rd' = "checked"
         /\ get_results_read =>
              /\ resp'.op = "get_results" /\ resp'.status = 200
              /\ ExactlyStored(resp'.out.v, submissions)]_vars

C1_Witness ==
    /\ resp.op = "get_results" /\ resp.status = 200
    /\ Len(resp.out.v) = 2 /\ Len(submissions) = 2
    /\ GateState = "Released"

\* A step in which release_results (retract_results) answers 200
SuccessfulRelease ==
    /\ resp'.op = "release_results" /\ resp'.status = 200
    /\ \E h \in Headers : release_results(h)
SuccessfulRetract ==
    /\ resp'.op = "retract_results" /\ resp'.status = 200
    /\ \E h \in Headers : retract_results(h)

\* C3: the gate starts Retracted, a successful release leaves it Released, a
\* successful retract leaves it Retracted, and no other step changes it: the gate
\* is Released exactly when the latest successful toggle was a release.  While it
\* is Retracted, get_results with storage available answers 403.
C3_LastToggleWins ==
    /\ GateState = "Retracted"
    /\ [][/\ SuccessfulRelease => GateState' = "Released"
          /\ SuccessfulRetract => GateState' = "Retracted"
          /\ ~SuccessfulRelease /\ ~SuccessfulRetract => GateState' = GateState
          /\ (GateState = "Retracted" /\ StorageAvailable /\ get_results_check)
               => resp'.op = "get_results" /\ resp'.status = 403]_vars

\* get_results has passed the gate check (so a release came first), and the
\* latest request, a retract, has closed the gate again
C3_Witness ==
    /\ rd = "checked"
    /\ resp.op = "retract_results" /\ resp.status = 200
    /\ GateState = "Retracted"

\* A header that carries a credential the token authority must accept: a scheme,
\* a space, and then a token signed with SECRET_KEY whose expiry lies ahead.  Every
\* other header is missing (none, or an empty value), malformed (no value part),
\* expired, or wrongly signed.
FreshToken(tok, t) ==
    /\ Len(tok) = 1 /\ tok[1].k = "jwt"
    /\ tok[1].key = SECRET_KEY
    /\ t < tok[1].exp
GoodCredential(h, t) ==
    /\ h.present
    /\ Len(Split(h.v)) >= 2
    /\ FreshToken(Split(h.v)[2], t)

\* C4: a release by an authorised caller, with storage available, that follows a
\* successful release changes nothing: it succeeds with the same response, and
\* app_state holds the same records, as many as before; likewise for retract.
\* After any successful toggle app_state holds exactly one record.
C4_ToggleIdempotent ==
    [][/\ (resp.op = "release_results" /\ resp.status = 200
           /\ resp'.op = "release_results" /\ StorageAvailable)
            => \A h \in Headers :
                 GoodCredential(h, now) /\ release_results(h)
                   => /\ app_state' = app_state
                      /\ Cardinality(app_state') = Cardinality(app_state)
                      /\ resp' = resp
       /\ (resp.op = "retract_results" /\ resp.status = 200
           /\ resp'.op = "retract_results" /\ StorageAvailable)
            => \A h \in Headers :
                 GoodCredential(h, now) /\ retract_results(h)
                   => /\ app_state' = app_state
                      /\ Cardinality(app_state') = Cardinality(app_state)
                      /\ resp' = resp
       /\ (SuccessfulRelease \/ SuccessfulRetract) => Cardinality(app_state') = 1]_vars

C4_Witness ==
    /\ resp.op = "release_results" /\ resp.status = 200
    /\ app_state = {[_id |-> RELEASE_CONFIG, results_released |-> TRUE]}

ProtectedOps ==
    {"get_results_status", "release_results", "retract_results", "refresh_aggregator",
     "clear_results"}

BearerHeader(tok) == Header(<<Word("Bearer"), SP>> \o tok)

\* C6: at every time and after any operations, a protected call carrying a token
\* passes the token check exactly when the token is signed with SECRET_KEY and the
\* clock is strictly before its expiry; the token a login issues expires
\* TOKEN_HOURS after the login and passes the check at once; a token signed with
\* another key never passes.
C6_TokenValidUntilExpiry ==
    /\ [](\A tok \in Tokens :
            /\ TokenCheck(BearerHeader(tok), now) = "ok" <=> FreshToken(tok, now)
            /\ tok \in issued => tok[1].key = SECRET_KEY /\ tok[1].exp <= now + TOKEN_HOURS)
    /\ [](TokenCheck(BearerHeader(ForgedToken), now) # "ok")
    /\ [][/\ resp'.op = "get_results_status" =>
               \A tok \in Tokens :
                  get_results_status(BearerHeader(tok))
                     => (resp'.status # 401 <=> FreshToken(tok, now))
          /\ (resp'.op = "admin_login" /\ resp'.status = 200
              /\ \E body \in LoginBodies : admin_login(body)) =>
               /\ resp'.out.v[1].exp = now + TOKEN_HOURS
               /\ TokenCheck(BearerHeader(resp'.out.v), now') = "ok"
               /\ \A t \in now..(now + TOKEN_HOURS - 1) :
                     TokenCheck(BearerHeader(resp'.out.v), t) = "ok"
               /\ \A t \in (now + TOKEN_HOURS)..(MaxTime + TOKEN_HOURS) :
                     TokenCheck(BearerHeader(resp'.out.v), t) = "Token has expired!"]_vars

\* A token presented at the very hour of its expiry, TOKEN_HOURS after the login
\* that issued it, and refused as expired
C6_Witness ==
    /\ \E tok \in issued : tok[1].exp = now /\ now = TOKEN_HOURS
    /\ resp = Unauthorized("get_results_status", "Token has expired!")

\* The password a login body supplies; None when the body has none
Supplied(body) == IF "password" \in DOMAIN body.v THEN body.v["password"] ELSE None
\* No password to check: none in the body, null, or an empty value
Absent(pw) == pw \in {None, JNull, JStr(""), JNum(0)}

\* C7: in every state, so after any number of failed attempts, a login is
\* answered with a token exactly when the supplied password equals
\* ADMIN_PASSWORD; any other password gives 401 and an absent or empty one 400,
\* and neither hands out a token.
C7_LoginIffPassword ==
    [][resp'.op = "admin_login" =>
         \A body \in LoginBodies :
            admin_login(body) =>
               /\ (resp'.status = 200) <=> (body.t = "obj" /\ Supplied(body) = ADMIN_PASSWORD)
               /\ resp'.status = 200 => resp'.out.t = "token"
               /\ resp'.status # 200 => resp'.out.t = "msg" /\ issued' = issued
               /\ (body.t = "obj" /\ Absent(Supplied(body))) => resp'.status = 400
               /\ (body.t = "obj" /\ ~Absent(Supplied(body))
                   /\ Supplied(body) # ADMIN_PASSWORD) => resp'.status = 401]_vars

\* A login refused with 401 after an earlier login succeeded
C7_Witness ==
    /\ resp = Resp("admin_login", 401, Msg("Invalid credentials."))
    /\ issued # {}

\* A JSON object that fails the validation of submit: a required field is not
\* among its keys, or its scores is not an object
Invalid(p) ==
    \/ \E f \in RequiredSet : f \notin DOMAIN p.v
    \/ p.v["scores"].t # "obj"

\* C5 as stated: every JSON object that lacks a required field, or whose scores is
\* no mapping, is answered 400, no insert is attempted and the store is unchanged.
C5_Original ==
    [][resp'.op = "submit_judging" =>
         \A p \in Payloads :
            (p.t = "obj" /\ Invalid(p) /\ submit_judging(p))
               => /\ resp'.status = 400
                  /\ submissions' = submissions /\ nextOid' = nextOid]_vars

\* C5 as amended: such a payload is answered 400 when the database connection was
\* made at startup, and 500 when it was not; in both cases no _id is generated, no
\* insert is attempted and the store is unchanged.
C5_InvalidPayloadRejected ==
    [][resp'.op = "submit_judging" =>
         \A p \in Payloads :
            (p.t = "obj" /\ Invalid(p) /\ submit_judging(p))
               => /\ resp'.status = IF collectionsOk THEN 400 ELSE 500
                  /\ submissions' = submissions /\ nextOid' = nextOid
                  /\ assigned' = assigned]_vars

\* A payload with a scores that is no object refused while the store holds a record
C5_Witness ==
    /\ resp = Resp("submit_judging", 400, Msg("Scores field must be an object"))
    /\ Len(submissions) >= 1

\* C8: clear_results by an authorised caller with storage available reports the
\* number of records the store held and leaves the store empty; one that follows
\* a successful clear_results reports 0 and succeeds.
C8_ClearReportsCount ==
    [][resp'.op = "clear_results" =>
         \A h \in Headers :
            (GoodCredential(h, now) /\ StorageAvailable /\ clear_results(h))
               => /\ resp' = Resp("clear_results", 200,
                                  [t |-> "count", v |-> Len(submissions)])
                  /\ submissions' = <<>>
                  /\ (resp.op = "clear_results" /\ resp.status = 200)
                        => resp'.out.v = 0]_vars

C8_Witness ==
    /\ resp = Resp("clear_results", 200, [t |-> "count", v |-> 2])
    /\ submissions = <<>>

AcceptedSubmit ==
    /\ resp'.op = "submit_judging" /\ resp'.status = 201
    /\ \E p \in Payloads : submit_judging(p)
SuccessfulClear ==
    /\ resp'.op = "clear_results" /\ resp'.status = 200
    /\ \E h \in Headers : clear_results(h)

\* C9: a submit answered 201 adds exactly one record, after the records already
\* there, with the payload's fields as sent; the records already there stay as
\* they are; and the store changes in no other step but a successful
\* clear_results, which leaves it empty.
C9_AppendOnlyStore ==
    [][/\ (resp'.op = "submit_judging" /\ resp'.status = 201) =>
            \A p \in Payloads :
               submit_judging(p) =>
                  /\ Len(submissions') = Len(submissions) + 1
                  /\ SubSeq(submissions', 1, Len(submissions)) = submissions
                  /\ LET new == submissions'[Len(submissions')] IN
                       /\ DOMAIN new = DOMAIN p.v \cup {"_id"}
                       /\ \A key \in DOMAIN p.v \ {"_id"} : new[key] = p.v[key]
       /\ submissions' # submissions =>
            \/ AcceptedSubmit
            \/ SuccessfulClear /\ submissions' = <<>>]_vars

\* Two submits accepted in a row on an empty store, and two records stored
C9_Witness ==
    /\ resp.op = "submit_judging" /\ resp.status = 201
    /\ Len(submissions) = 2

\* C10: the _id of a record that a submit answered 201 has just stored has never
\* been given to a record before, in this store's whole life.
C10_IdUniqueForLifetime ==
    [][AcceptedSubmit => submissions'[Len(submissions')]._id \notin assigned]_vars

\* The record a step has just appended to the store
NewRecord == submissions'[Len(submissions')]

\* C11: the record a submit answered 201 has just stored carries a receivedAt,
\* and when the payload itself supplied a receivedAt the stored value is not the
\* payload's.
C11_ReceivedAtServerSet ==
    [][(resp'.op = "submit_judging" /\ resp'.status = 201) =>
         \A p \in Payloads :
            submit_judging(p) =>
               /\ "receivedAt" \in DOMAIN NewRecord
               /\ "receivedAt" \in DOMAIN p.v => NewRecord.receivedAt # p.v["receivedAt"]]_vars

NonEmptyString(x) == x.t = "str" /\ x.v # ""

\* C12: in every stored submission judgeName, teamName and hackathonTrack are
\* non-empty strings.
C12_NamesNonEmptyStrings ==
    \A i \in 1..Len(submissions) :
       \A field \in {"judgeName", "teamName", "hackathonTrack"} :
          NonEmptyString(submissions[i][field])

\* C13: with storage available, a submit of a JSON object that passes validation
\* is answered 201 and adds exactly one record; whenever such a submit is
\* answered 500 instead, storage is unavailable and nothing has been stored.
C13_ValidSubmitSucceeds ==
    [][resp'.op = "submit_judging" =>
         \A p \in Payloads :
            (p.t = "obj" /\ ~Invalid(p) /\ submit_judging(p))
               => /\ StorageAvailable =>
                       /\ resp'.status = 201
                       /\ Len(submissions') = Len(submissions) + 1
                  /\ resp'.status # 201 =>
                       /\ resp'.status = 500
                       /\ ~StorageAvailable
                       /\ submissions' = submissions]_vars

\* The two states of app_state that read as "not released": no release_config
\* record, and a release_config record with results_released = FALSE
NoRecord == app_state = {}
RecordFalse == app_state = {[_id |-> RELEASE_CONFIG, results_released |-> FALSE]}

\* C14: app_state never holds more than one record, and the record it holds is
\* the one keyed release_config, however release and retract interleave; and
\* with storage available get_results and get_results_status give the same
\* answer, 403 and released = FALSE, whether the record is missing or is there
\* with results_released = FALSE.
C14_SingleReleaseRecord ==
    /\ [](/\ Cardinality(app_state) <= 1
          /\ \A d \in app_state : d._id = RELEASE_CONFIG)
    /\ [][(StorageAvailable /\ (NoRecord \/ RecordFalse)) =>
            /\ get_results_check =>
                 /\ resp' = Resp("get_results", 403,
                                 Msg("Results have not been released by the admin yet."))
                 /\ rd' = "idle"
            /\ (resp'.op = "get_results_status" /\ resp'.status # 401
                /\ \E h \in Headers : get_results_status(h)) =>
                 resp' = Resp("get_results_status", 200, [t |-> "flag", v |-> FALSE])]_vars

\* The public read refused on a store that holds a submission, after release and
\* retract have left the one record with results_released = FALSE
C14_Witness ==
    /\ RecordFalse
    /\ resp.op = "get_results" /\ resp.status = 403
    /\ Len(submissions) >= 1

\* C15: refresh_aggregator changes neither the stored submissions nor app_state,
\* whatever the outcome of the call to the aggregator and whether or not
\* AGGREGATOR_URL is set; made with a good credential it answers 200 when the
\* URL is set and the aggregator accepts the call, and 500 in every other case
\* (error status, connection failure, timeout, URL not set).
C15_RefreshTouchesNothing ==
    [][resp'.op = "refresh_aggregator" =>
         \A h \in Headers, o \in AggregatorOutcomes :
            refresh_aggregator(h, o) =>
               /\ submissions' = submissions
               /\ app_state' = app_state
               /\ GoodCredential(h, now) =>
                    resp'.status = IF aggregatorUrl /\ o = "ok" THEN 200 ELSE 500]_vars

\* A refresh that timed out, answered 500, over a store that holds a submission
\* and a gate that is Released
C15_Witness ==
    /\ resp = Resp("refresh_aggregator", 500, Msg("timeout"))
    /\ aggregatorUrl
    /\ submissions # <<>>
    /\ GateState = "Released"

\* C16: however release and retract requests interleave, every change of
\* app_state is the one write of one successful request, and it leaves exactly
\* the record that request wrote: results_released TRUE after a release, FALSE
\* after a retract, whatever the record held before.  The record, once written,
\* is never removed, so app_state always holds the value of the write applied
\* last and never a value no request wrote.
C16_LastWriterWins ==
    [][/\ app_state' # app_state => SuccessfulRelease \/ SuccessfulRetract
       /\ SuccessfulRelease =>
            app_state' = {[_id |-> RELEASE_CONFIG, results_released |-> TRUE]}
       /\ SuccessfulRetract =>
            app_state' = {[_id |-> RELEASE_CONFIG, results_released |-> FALSE]}
       /\ app_state # {} => app_state' # {}]_vars

\* A retract applied after a release, while a public read that passed the gate
\* check is still in flight: the record holds what the retract wrote
C16_Witness ==
    /\ RecordFalse
    /\ resp = Resp("retract_results", 200, Msg("success"))
    /\ rd = "checked"
    /\ submissions # <<>>

\* The verdict C17 gives each Authorization header, as the 401 message of the
\* wrapper or "ok": Missing without a header; Malformed unless the header is a
\* scheme, one space and a non-empty value; then Expired, InvalidSignature or
\* accepted by the token itself
Classify(h, t) ==
    IF ~h.present THEN "Token is missing!"
    ELSE IF Len(Split(h.v)) # 2 \/ Split(h.v)[2] = <<>>
    THEN "Malformed 'Authorization' header."
    ELSE IF FreshToken(Split(h.v)[2], t) THEN "ok"
    ELSE IF JwtDecode(Split(h.v)[2], SECRET_KEY, t) = "ExpiredSignatureError"
    THEN "Token has expired!"
    ELSE "Token is invalid!"

\* C17: a protected call is let through exactly when its header is of the
\* two-part shape and carries a valid token, and every other call is answered
\* 401 with the message of its class: missing, malformed, expired, invalid.
C17_CredentialClassified ==
    [][resp'.op \in ProtectedOps =>
         \A h \in Headers :
            (\/ resp'.op = "get_results_status" /\ get_results_status(h)
             \/ resp'.op = "release_results" /\ release_results(h)
             \/ resp'.op = "retract_results" /\ retract_results(h)
             \/ resp'.op = "clear_results" /\ clear_results(h)
             \/ resp'.op = "refresh_aggregator"
                  /\ \E o \in AggregatorOutcomes : refresh_aggregator(h, o))
            => IF Classify(h, now) = "ok"
               THEN resp'.status # 401
               ELSE resp' = Unauthorized(resp'.op, Classify(h, now))]_vars

\* C18: whenever get_results reads the submissions and answers 200 with them,
\* the gate is Released at that moment, whatever retract requests have run since
\* the request began.
C18_NoListWhileRetracted ==
    [][(get_results_read /\ resp'.op = "get_results" /\ resp'.status = 200)
         => GateState = "Released"]_vars

\* A request body that is JSON but no JSON object
NonObject(p) == p # NotJson /\ p.t # "obj"

\* C19: with storage available, a submit whose body is JSON but no object (null,
\* a number, a string, an array) is answered 400, and the store is unchanged.
C19_NonObjectRejected ==
    [][(resp'.op = "submit_judging" /\ StorageAvailable) =>
         \A p \in Payloads :
            (NonObject(p) /\ submit_judging(p))
               => /\ resp'.status = 400
                  /\ submissions' = submissions]_vars

\* C20: release_results, retract_results and get_results_status leave the stored
\* submissions as they are; submit_judging, get_results and clear_results leave
\* app_state as it is, so that a successful clear_results on a Released gate
\* leaves the gate Released and the store empty, and get_results, with storage
\* available, then passes the gate check and answers 200 with the empty list;
\* and a valid payload without an _id is answered 201, storage being available,
\* whether the gate is Released or Retracted.
C20_GateAndStoreIndependent ==
    [][/\ (/\ resp'.op \in {"release_results", "retract_results", "get_results_status"}
           /\ \E h \in Headers :
                 \/ release_results(h) \/ retract_results(h) \/ get_results_status(h))
            => submissions' = submissions
       /\ (\/ resp'.op = "submit_judging" /\ \E p \in Payloads : submit_judging(p)
           \/ resp'.op = "clear_results" /\ \E h \in Headers : clear_results(h)
           \/ get_results_check
           \/ get_results_read)
            => app_state' = app_state
       /\ (SuccessfulClear /\ GateState = "Released")
            => GateState' = "Released" /\ submissions' = <<>>
       /\ (StorageAvailable /\ GateState = "Released" /\ submissions = <<>>) =>
            /\ get_results_check => rd' = "checked"
            /\ get_results_read =>
                 resp' = Resp("get_results", 200, [t |-> "list", v |-> <<>>])
       /\ (resp'.op = "submit_judging" /\ StorageAvailable) =>
            \A p \in Payloads :
               (p.t = "obj" /\ ~Invalid(p) /\ "_id" \notin DOMAIN p.v /\ submit_judging(p))
                  => resp'.status = 201]_vars

\* get_results answers 200 with the empty list on a gate that is still Released,
\* after clear_results has emptied a store that held a submission
C20_Witness ==
    /\ resp = Resp("get_results", 200, [t |-> "list", v |-> <<>>])
    /\ GateState = "Released"
    /\ assigned # {}
    /\ submissions = <<>>

====
